---- MODULE Spec2Model ----
(***************************************************************************)
(* FlowDoc AI: the analyze handler of src/server.js (POST /api/analyze)    *)
(* and the plugin message router of src/code.ts.                           *)
(*                                                                         *)
(* A text (request body, upstream body, message content, response body)   *)
(* is a sequence of lexical units: the JSON punctuation, the quote, the    *)
(* backslash, the literal null, number literals and letters.  A            *)
(* JavaScript string value is the sequence of the units it is made of.     *)
(* JSON.parse and JSON.stringify are modelled over these texts.            *)
(***************************************************************************)
EXTENDS Integers, Sequences, FiniteSets, TLC

\* ------------------------------------------------------------------------
\* Bounds
\* ------------------------------------------------------------------------
MaxLen == 2

MaxErrLen == 1

MaxRequests == 2

MaxPending == 2

\* ------------------------------------------------------------------------
\* JavaScript values: [t |-> type tag, v |-> payload sequence]
\* ------------------------------------------------------------------------
Undef == [t |-> "undefined", v |-> <<>>]

Null == [t |-> "null", v |-> <<>>]

Num(n) == [t |-> "number", v |-> <<n>>]

Str(s) == [t |-> "string", v |-> s]

Arr(xs) == [t |-> "array", v |-> xs]

Obj(ms) == [t |-> "object", v |-> ms]

\* Lexical units.  LF is the line feed character, which only occurs inside
\* decoded strings.
QUOTE == "\""

BSLASH == "\\"

LF == "<LF>"

\* A number literal and the double it denotes: 1e400 is beyond the range of
\* a double and JSON.parse yields Infinity for it.
NumLex == {"2e0", "2", "1e400"}

NumVal(lex) == IF lex = "1e400" THEN Num("Infinity") ELSE Num("2")

\* The units a text of the environment is drawn from.
Alphabet == {"{", "}", "[", "]", ":", ",", QUOTE, BSLASH, "a", "null", "2e0", "1e400"}

\* ------------------------------------------------------------------------
\* JSON.parse
\* ------------------------------------------------------------------------
Fail == [ok |-> FALSE, val |-> Undef, rest |-> <<>>]

Ok(val, rest) == [ok |-> TRUE, val |-> val, rest |-> rest]

\* obj[key] = val on an ordinary object: an existing key keeps its place.
RECURSIVE PutMember(_, _, _)
PutMember(ms, key, val) ==
  IF ms = <<>> THEN << <<key, val>> >>
  ELSE IF Head(ms)[1] = key THEN << <<key, val>> >> \o Tail(ms)
  ELSE <<Head(ms)>> \o PutMember(Tail(ms), key, val)

\* s[lo] \o ... \o s[hi] for a sequence of sequences.
RECURSIVE Flatten(_, _, _)
Flatten(ss, lo, hi) ==
  IF lo > hi THEN <<>>
  ELSE IF lo = hi THEN ss[lo]
  ELSE Flatten(ss, lo, (lo + hi) \div 2) \o Flatten(ss, (lo + hi) \div 2 + 1, hi)

\* The number of backslashes that immediately precede position i.
RunFrom(others, i) ==
  IF others = {} THEN i - 1 ELSE i - 1 - (CHOOSE j \in others : \A k \in others : k <= j)

BackslashRun(s, i) == RunFrom({j \in 1..(i - 1) : s[j] # BSLASH}, i)

\* A backslash that introduces an escape, and the unit it escapes.
IsIntro(s, i) == s[i] = BSLASH /\ BackslashRun(s, i) % 2 = 0

IsEscaped(s, i) == i > 1 /\ IsIntro(s, i - 1)

\* The characters an escaped unit stands for: \" \\ \n, and \null, which is
\* \n followed by the letters ull.  Any other escape is a SyntaxError.
Unescaped(unit) ==
  IF unit = QUOTE THEN <<QUOTE>>
  ELSE IF unit = BSLASH THEN <<BSLASH>>
  ELSE IF unit = "n" THEN <<LF>>
  ELSE IF unit = "null" THEN <<LF, "ull">>
  ELSE <<>>

\* The value of the characters between the quotes of a string literal.  An
\* unknown escape and a raw line feed are SyntaxErrors.
StringBody(body, rest) ==
  IF \E i \in 1..Len(body) :
       IF IsEscaped(body, i) THEN Unescaped(body[i]) = <<>> ELSE body[i] = LF
    THEN Fail
    ELSE Ok(Str(Flatten([i \in 1..Len(body) |->
                           IF IsEscaped(body, i) THEN Unescaped(body[i])
                           ELSE IF IsIntro(body, i) THEN <<>>
                           ELSE <<body[i]>>], 1, Len(body))), rest)

StringUpTo(s, quotes) ==
  IF quotes = {} THEN Fail
  ELSE StringBody(SubSeq(s, 1, (CHOOSE i \in quotes : \A k \in quotes : i <= k) - 1),
                  SubSeq(s, (CHOOSE i \in quotes : \A k \in quotes : i <= k) + 1, Len(s)))

\* The characters of a string literal after its opening quote: up to the
\* first quote that is not escaped.
ParseChars(s) == StringUpTo(s, {i \in 1..Len(s) : s[i] = QUOTE /\ ~IsEscaped(s, i)})

RECURSIVE ParseValue(_)
RECURSIVE ParseElements(_, _)
RECURSIVE ParseMembers(_, _)
RECURSIVE ElementsAfter(_, _)
RECURSIVE MembersAfterKey(_, _)
RECURSIVE MembersAfterValue(_, _, _)
ParseValue(s) ==
  IF s = <<>> THEN Fail
  ELSE IF Head(s) = "null" THEN Ok(Null, Tail(s))
  ELSE IF Head(s) \in NumLex THEN Ok(NumVal(Head(s)), Tail(s))
  ELSE IF Head(s) = QUOTE THEN ParseChars(Tail(s))
  ELSE IF Head(s) = "[" THEN
    IF Len(s) >= 2 /\ s[2] = "]" THEN Ok(Arr(<<>>), Tail(Tail(s)))
    ELSE ParseElements(Tail(s), <<>>)
  ELSE IF Head(s) = "{" THEN
    IF Len(s) >= 2 /\ s[2] = "}" THEN Ok(Obj(<<>>), Tail(Tail(s)))
    ELSE ParseMembers(Tail(s), <<>>)
  ELSE Fail

\* The elements of an array: a value, then a comma or the closing bracket.
ParseElements(s, acc) == ElementsAfter(ParseValue(s), acc)

ElementsAfter(r, acc) ==
  IF ~r.ok \/ r.rest = <<>> THEN Fail
  ELSE IF Head(r.rest) = "," THEN ParseElements(Tail(r.rest), acc \o <<r.val>>)
  ELSE IF Head(r.rest) = "]" THEN Ok(Arr(acc \o <<r.val>>), Tail(r.rest))
  ELSE Fail

\* The members of an object: a key, a colon, a value, then a comma or the
\* closing brace.
ParseMembers(s, acc) ==
  IF s = <<>> \/ Head(s) # QUOTE THEN Fail
  ELSE MembersAfterKey(ParseChars(Tail(s)), acc)

MembersAfterKey(k, acc) ==
  IF ~k.ok \/ k.rest = <<>> \/ Head(k.rest) # ":" THEN Fail
  ELSE MembersAfterValue(k.val.v, ParseValue(Tail(k.rest)), acc)

MembersAfterValue(key, r, acc) ==
  IF ~r.ok \/ r.rest = <<>> THEN Fail
  ELSE IF Head(r.rest) = "," THEN ParseMembers(Tail(r.rest), PutMember(acc, key, r.val))
  ELSE IF Head(r.rest) = "}" THEN Ok(Obj(PutMember(acc, key, r.val)), Tail(r.rest))
  ELSE Fail

Whole(r) == IF r.ok /\ r.rest = <<>> THEN Ok(r.val, <<>>) ELSE Fail

\* JSON.parse(text): ok = FALSE stands for the SyntaxError it throws.
JSONparse(s) == Whole(ParseValue(s))

\* ------------------------------------------------------------------------
\* JSON.stringify
\* ------------------------------------------------------------------------
EscapeUnit(unit) ==
  IF unit = QUOTE THEN <<BSLASH, QUOTE>>
  ELSE IF unit = BSLASH THEN <<BSLASH, BSLASH>>
  ELSE IF unit = LF THEN <<BSLASH, "n">>
  ELSE <<unit>>

Escape(s) == Flatten([i \in 1..Len(s) |-> EscapeUnit(s[i])], 1, Len(s))

QuoteJSON(s) == <<QUOTE>> \o Escape(s) \o <<QUOTE>>

RECURSIVE Serialize(_)
RECURSIVE SerElements(_)
RECURSIVE SerMembers(_, _)
\* A number that is not finite, and undefined inside an array, become null.
Serialize(x) ==
  IF x.t = "null" \/ x.t = "undefined" THEN <<"null">>
  ELSE IF x.t = "number" THEN (IF x.v[1] = "Infinity" THEN <<"null">> ELSE <<x.v[1]>>)
  ELSE IF x.t = "string" THEN QuoteJSON(x.v)
  ELSE IF x.t = "array" THEN <<"[">> \o SerElements(x.v) \o <<"]">>
  ELSE <<"{">> \o SerMembers(x.v, TRUE) \o <<"}">>

SerElements(xs) ==
  IF xs = <<>> THEN <<>>
  ELSE Serialize(Head(xs)) \o (IF Len(xs) > 1 THEN <<",">> ELSE <<>>) \o SerElements(Tail(xs))

\* A member whose value is undefined is left out.
SerMembers(ms, first) ==
  IF ms = <<>> THEN <<>>
  ELSE IF Head(ms)[2].t = "undefined" THEN SerMembers(Tail(ms), first)
  ELSE (IF first THEN <<>> ELSE <<",">>) \o QuoteJSON(Head(ms)[1]) \o <<":">>
       \o Serialize(Head(ms)[2]) \o SerMembers(Tail(ms), FALSE)

JSONstringify(x) == Serialize(x)

\* ------------------------------------------------------------------------
\* JavaScript operations the handler applies to decoded values
\* ------------------------------------------------------------------------
K(name) == <<name>>

RECURSIVE Lookup(_, _)
Lookup(ms, key) ==
  IF ms = <<>> THEN Undef
  ELSE IF Head(ms)[1] = key THEN Head(ms)[2]
  ELSE Lookup(Tail(ms), key)

\* x.key for a named (non-index) key: a TypeError on null and undefined,
\* the member of an object, undefined on anything else.
CanRead(x) == x.t \notin {"null", "undefined"}

GetProp(x, key) == IF x.t = "object" THEN Lookup(x.v, key) ELSE Undef

\* x?.[0]
GetIndex0(x) ==
  IF x.t = "array" THEN (IF x.v = <<>> THEN Undef ELSE x.v[1])
  ELSE IF x.t = "string" THEN (IF x.v = <<>> THEN Undef ELSE Str(<<x.v[1]>>))
  ELSE IF x.t = "object" THEN Lookup(x.v, K("0"))
  ELSE Undef

\* x?.key
OptProp(x, key) == IF CanRead(x) THEN GetProp(x, key) ELSE Undef

\* !x
Falsy(x) == x.t \in {"null", "undefined"} \/ (x.t = "string" /\ x.v = <<>>)

\* String(x), the conversion JSON.parse and template literals apply.
RECURSIVE StringOf(_)
RECURSIVE JoinElements(_)
StringOf(x) ==
  IF x.t = "string" \/ x.t = "number" THEN x.v
  ELSE IF x.t = "null" THEN <<"null">>
  ELSE IF x.t = "undefined" THEN <<"undefined">>
  ELSE IF x.t = "array" THEN JoinElements(x.v)
  ELSE <<"[object Object]">>

JoinElements(xs) ==
  IF xs = <<>> THEN <<>>
  ELSE (IF Head(xs).t \in {"null", "undefined"} THEN <<>> ELSE StringOf(Head(xs)))
       \o (IF Len(xs) > 1 THEN <<",">> ELSE <<>>) \o JoinElements(Tail(xs))

\* ------------------------------------------------------------------------
\* Responses
\* ------------------------------------------------------------------------
ACAO == <<"Access-Control-Allow-Origin", "*">>

ContentTypeJSON == <<"Content-Type", "application/json">>

PreflightHeaders ==
  {ACAO, <<"Access-Control-Allow-Methods", "POST, OPTIONS">>,
   <<"Access-Control-Allow-Headers", "Content-Type, Authorization">>}

NoResponse == [status |-> 0, hasBody |-> FALSE, body |-> <<>>, headers |-> {}]

\* new Response(null, {headers})
EmptyResponse(headers) ==
  [status |-> 200, hasBody |-> FALSE, body |-> <<>>, headers |-> headers]

\* new Response(text, {status, headers})
TextResponse(text, status, headers) ==
  [status |-> status, hasBody |-> TRUE, body |-> text, headers |-> headers]

\* The Response constructor rejects a status outside 200..599 (RangeError)
\* and a body together with a null-body status (TypeError).
NullBodyStatus == {101, 103, 204, 205, 304}

ResponseError(status) ==
  IF status < 200 \/ status > 599 THEN <<"RangeError: init[\"status\"] must be in the range of 200 to 599, inclusive.">>
  ELSE IF status \in NullBodyStatus THEN <<"TypeError: Response with null body status cannot have body">>
  ELSE <<>>

MsgMethodNotAllowed == <<"Method not allowed">>

MsgInvalidBody == <<"Invalid JSON body">>

\* "Missing `image` field (base64 string)", the field name as a unit of its own.
MsgMissingImage == <<"Missing ", "image", " field (base64 string)">>

MsgNoKey == <<"GROQ_API_KEY not configured on server">>

MsgUpstream == <<"GROQ API error">>

MsgInternal == <<"Internal server error">>

MsgWarning == <<"Could not parse structured JSON -- raw AI output attached">>

ErrorBody(msg) == JSONstringify(Obj(<< <<K("error"), Str(msg)>> >>))

ErrorDetailsBody(msg, details) ==
  JSONstringify(Obj(<< <<K("error"), Str(msg)>>, <<K("details"), Str(details)>> >>))

\* The outer catch of the handler.
InternalErrorResponse(err) ==
  TextResponse(ErrorDetailsBody(MsgInternal, err), 500, {ACAO})

\* The pass-through of an upstream failure.
UpstreamErrorResponse(errText, status) ==
  TextResponse(ErrorDetailsBody(MsgUpstream, errText), status, {})

UnparseableResponse(raw) ==
  TextResponse(JSONstringify(Obj(<< <<K("warning"), Str(MsgWarning)>>, <<K("raw"), raw>> >>)),
               200, {ContentTypeJSON, ACAO})

ValidatedResponse(parsed) ==
  TextResponse(JSONstringify(parsed), 200, {ContentTypeJSON, ACAO})

\* groqData.choices?.[0]?.message?.content
RawContent(groqData) ==
  LET choices == GetProp(groqData, K("choices"))
      first == IF CanRead(choices) THEN GetIndex0(choices) ELSE Undef
      message == OptProp(first, K("message"))
  IN OptProp(message, K("content"))

\* `data:${mimeType};base64,${image}`
DataUrl(mimeType, image) ==
  <<"data:">> \o StringOf(mimeType) \o <<";base64,">> \o StringOf(image)

\* ------------------------------------------------------------------------
\* The environment: requests, configuration, the upstream service
\* ------------------------------------------------------------------------
\* All texts of at most n units.
Texts(n) == UNION {[1..k -> Alphabet] : k \in 0..n}

Methods == {"OPTIONS", "GET", "PUT", "POST"}

ImageObj(image) == Obj(<< <<K("image"), image>> >>)

\* Request bodies: not JSON, JSON that is not an object, objects without and
\* with an image member.
RequestBodies ==
  { <<>>, <<"a">>, <<"{">>, <<"null">>, <<"2e0">>, <<"[", "]">>, <<QUOTE, "a", QUOTE>>,
    <<"{", "}">>,
    JSONstringify(Obj(<< <<K("mimeType"), Str(<<"image/jpeg">>)>> >>)),
    JSONstringify(ImageObj(Str(<<>>))),
    JSONstringify(ImageObj(Null)),
    JSONstringify(ImageObj(Str(<<"iVBORw0KGgo=">>))),
    JSONstringify(Obj(<< <<K("image"), Str(<<"iVBORw0KGgo=">>)>>,
                         <<K("mimeType"), Str(<<"image/jpeg">>)>> >>)) }

\* process.env.GROQ_API_KEY
ApiKeys == {Undef, Str(<<"gsk_key">>)}

\* Status codes the upstream service may answer with.
UpstreamStatuses == {200, 201, 304, 401, 429, 500, 999}

\* Response.ok
IsOk(status) == status >= 200 /\ status <= 299

\* Texts the model may put in message.content.
ContentSamples ==
  { <<"[", "1e400", "]">>,
    <<"{", QUOTE, "a", QUOTE, ":", "2e0", ",", QUOTE, "a", QUOTE, ":", "null", "}">>,
    JSONstringify(Obj(<< <<K("title"), Str(<<"Login">>)>>,
                         <<K("confidence"), Str(<<"high">>)>>,
                         <<K("states"), Arr(<<Obj(<< <<K("id"), Str(<<"S1">>)>> >>)>>)>>,
                         <<K("noiseDetected"), Null>> >>)),
    JSONstringify(Obj(<< <<K("confidence"), Str(<<"certain">>)>>,
                         <<K("transitions"),
                           Arr(<<Obj(<< <<K("from"), Str(<<"S9">>)>>,
                                        <<K("kind"), Str(<<"teleport">>)>> >>)>>)>> >>)),
    <<"Here is the JSON: ", "{", "}">> }

Contents == Texts(MaxLen) \cup ContentSamples

Completion(content) ==
  Obj(<< <<K("choices"), Arr(<<Obj(<< <<K("message"), Obj(<< <<K("content"), content>> >>)>> >>)>>)>> >>)

\* Values a successful upstream body may decode to.
Envelopes ==
  {Completion(Str(c)) : c \in Contents}
  \cup { Completion(Null), Completion(Obj(<<>>)), Completion(Arr(<<Num("2")>>)),
         Null, Num("2"), Obj(<<>>),
         Obj(<< <<K("choices"), Arr(<<>>)>> >>),
         Obj(<< <<K("choices"), Null>> >>),
         Obj(<< <<K("choices"), Arr(<<Obj(<<>>)>>)>> >>),
         Obj(<< <<K("choices"), Arr(<<Obj(<< <<K("message"), Obj(<<>>)>> >>)>>)>> >>) }

UpstreamBodies == {JSONstringify(e) : e \in Envelopes} \cup {<<>>, <<"a">>}

ErrorBodies ==
  Texts(MaxErrLen)
  \cup { JSONstringify(Obj(<< <<K("error"), Str(<<"rate limit">>)>> >>)), <<BSLASH, "null", QUOTE>> }

ErrFetch == <<"TypeError: fetch failed">>

ErrBodyRead == <<"TypeError: terminated">>

ErrSyntax == <<"SyntaxError: Unexpected token">>

ErrChoices == <<"TypeError: Cannot read properties of null (reading 'choices')">>

\* ------------------------------------------------------------------------
\* State
\* ------------------------------------------------------------------------
VARIABLES
  pc,        \* where the handler of the current request is suspended
  req,       \* the request: method and body text
  env,       \* process.env.GROQ_API_KEY
  sent,      \* the upstream calls issued for the current request
  groqRes,   \* the upstream response: status, body text once read
  response,  \* the Response the handler returned
  threw,     \* the handler's promise was rejected
  outcome,   \* which return statement ended the handler
  reached,   \* the stages of the handler the request has reached
  nreq       \* requests received so far

\* The plugin of src/code.ts
VARIABLES
  selection, \* figma.currentPage.selection
  handlers,  \* the message handlers suspended at an await, with their locals
  closed,    \* figma.closePlugin() was called
  event,     \* the latest step of the plugin: a message, a settled call, ...
  posted,    \* the messages the latest step posted with figma.ui.postMessage
  called     \* the calls the latest step made into the canvas host

hvars == <<pc, req, env, sent, groqRes, response, threw, outcome, reached, nreq>>

rvars == <<selection, handlers, closed, event, posted, called>>

vars == <<hvars, rvars>>

NoRequest == [method |-> "", body |-> <<>>]

NoGroqRes == [status |-> 0, read |-> FALSE, body |-> <<>>]

\* A handler slot: free, or the locals of a handler suspended at its await.
NoTarget == [kind |-> "none", id |-> 0]

Idle == [type |-> "", payload |-> Undef, sel |-> <<>>, node |-> NoTarget, label |-> Undef]

Slots == 1..MaxPending

\* The plugin after figma.showUI: nothing received, nothing posted.
InitRouter ==
  /\ selection = <<>>
  /\ handlers = [i \in Slots |-> Idle]
  /\ closed = FALSE
  /\ event = [kind |-> "start", slot |-> 0, type |-> "", payload |-> Undef, h |-> Idle,
              result |-> <<>>]
  /\ posted = <<>>
  /\ called = <<>>

Init ==
  /\ InitRouter
  /\ pc = "idle"
  /\ req = NoRequest
  /\ env \in ApiKeys
  /\ sent = <<>>
  /\ groqRes = NoGroqRes
  /\ response = NoResponse
  /\ threw = FALSE
  /\ outcome = "none"
  /\ reached = {}
  /\ nreq = 0

\* return new Response(...)
Return(resp, oc) ==
  /\ response' = resp
  /\ outcome' = oc
  /\ threw' = FALSE
  /\ pc' = "done"

\* An exception outside the try block: the handler's promise is rejected.
Throw ==
  /\ response' = NoResponse
  /\ outcome' = "Thrown"
  /\ threw' = TRUE
  /\ pc' = "done"

\* Preflight answered with a JSON body instead of null.
PreflightResponseWithBody == TextResponse(JSONstringify(Obj(<<>>)), 200, PreflightHeaders)

PreflightResponse == EmptyResponse(PreflightHeaders)

MethodNotAllowedResponse == TextResponse(ErrorBody(MsgMethodNotAllowed), 405, {})

\* The inner catch reporting a server error instead of a client error.
InvalidBodyResponse500 == TextResponse(ErrorBody(MsgInvalidBody), 500, {})

InvalidBodyResponse == TextResponse(ErrorBody(MsgInvalidBody), 400, {})

MissingImageResponse == TextResponse(ErrorBody(MsgMissingImage), 400, {})

NoKeyResponse == TextResponse(ErrorBody(MsgNoKey), 500, {})

\* The request arrives; the handler runs up to `await req.json()`.
Receive(m, b) ==
  /\ pc \in {"idle", "done"}
  /\ nreq < MaxRequests
  /\ nreq' = nreq + 1
  /\ req' = [method |-> m, body |-> b]
  /\ sent' = <<>>
  /\ groqRes' = NoGroqRes
  /\ IF m = "OPTIONS"
       THEN Return(PreflightResponse, "Preflight") /\ reached' = {}
     ELSE IF m # "POST"
       THEN Return(MethodNotAllowedResponse, "MethodNotAllowed") /\ reached' = {}
     ELSE /\ pc' = "reqJson"
          /\ response' = NoResponse
          /\ outcome' = "none"
          /\ threw' = FALSE
          /\ reached' = {"reqJson"}
  /\ UNCHANGED <<env, rvars>>

\* fetch(url, init): one upstream call.
IssueFetch(image, mimeType) ==
  /\ sent' = Append(sent, [url |-> DataUrl(mimeType, image),
                           authorization |-> <<"Bearer ">> \o StringOf(env)])
  /\ pc' = "fetch"
  /\ reached' = reached \cup {"credCheck", "fetch"}
  /\ UNCHANGED <<response, threw, outcome>>

\* req.json() settles; the handler runs up to `await fetch(...)`.
ReqJsonSettles ==
  /\ pc = "reqJson"
  /\ LET body == JSONparse(req.body) IN
     IF ~body.ok
       THEN Return(InvalidBodyResponse, "InputError") /\ UNCHANGED <<sent, reached>>
     ELSE IF ~CanRead(body.val)
       THEN Throw /\ UNCHANGED <<sent, reached>>
     ELSE
       LET image == GetProp(body.val, K("image"))
           given == GetProp(body.val, K("mimeType"))
           mimeType == IF given.t = "undefined" THEN Str(<<"image/png">>) ELSE given
       IN IF Falsy(image)
            THEN Return(MissingImageResponse, "InputError") /\ UNCHANGED <<sent, reached>>
          ELSE IF Falsy(env)
            THEN /\ Return(NoKeyResponse, "ConfigError")
                 /\ reached' = reached \cup {"credCheck"}
                 /\ UNCHANGED sent
          ELSE IssueFetch(image, mimeType)
  /\ UNCHANGED <<req, env, groqRes, nreq, rvars>>

\* catch (err) of the outer try block.
Catch(err) == Return(InternalErrorResponse(err), "InternalError")

\* fetch resolves with a response of the given status.
FetchResolves(status) ==
  /\ pc = "fetch"
  /\ groqRes' = [groqRes EXCEPT !.status = status]
  /\ pc' = IF IsOk(status) THEN "resJson" ELSE "resText"
  /\ UNCHANGED <<req, env, sent, response, threw, outcome, reached, nreq, rvars>>

\* A handler that calls the upstream service again when the call fails.
FetchRejectsRetry ==
  /\ pc = "fetch"
  /\ Len(sent) < 3
  /\ sent' = Append(sent, sent[1])
  /\ UNCHANGED <<pc, req, env, groqRes, response, threw, outcome, reached, nreq, rvars>>

\* fetch rejects (the network failed).
FetchRejects ==
  /\ pc = "fetch"
  /\ Catch(ErrFetch)
  /\ UNCHANGED <<req, env, sent, groqRes, reached, nreq, rvars>>

\* groqRes.text() resolves with the error body.
ResTextResolves(errText) ==
  /\ pc = "resText"
  /\ groqRes' = [groqRes EXCEPT !.read = TRUE, !.body = errText]
  /\ IF ResponseError(groqRes.status) # <<>>
       THEN Catch(ResponseError(groqRes.status))
       ELSE Return(UpstreamErrorResponse(errText, groqRes.status), "UpstreamError")
  /\ UNCHANGED <<req, env, sent, reached, nreq, rvars>>

\* groqRes.text() or groqRes.json() rejects while reading the body.
ResBodyRejects ==
  /\ pc \in {"resText", "resJson"}
  /\ Catch(ErrBodyRead)
  /\ UNCHANGED <<req, env, sent, groqRes, reached, nreq, rvars>>

\* groqRes.json() settles on a body that was read in full.
ResJsonSettles(text) ==
  /\ pc = "resJson"
  /\ groqRes' = [groqRes EXCEPT !.read = TRUE, !.body = text]
  /\ LET groqData == JSONparse(text) IN
     IF ~groqData.ok THEN Catch(ErrSyntax)
     ELSE IF ~CanRead(groqData.val) THEN Catch(ErrChoices)
     ELSE
       LET raw == RawContent(groqData.val)
           parsed == JSONparse(StringOf(raw))
       IN IF ~parsed.ok
            THEN Return(UnparseableResponse(raw), "Unparseable")
            ELSE Return(ValidatedResponse(parsed.val), "Validated")
  /\ UNCHANGED <<req, env, sent, reached, nreq, rvars>>

Next ==
  \/ \E m \in Methods, b \in RequestBodies : Receive(m, b)
  \/ ReqJsonSettles
  \/ \E status \in UpstreamStatuses : FetchResolves(status)
  \/ FetchRejects
  \/ \E errText \in ErrorBodies : ResTextResolves(errText)
  \/ ResBodyRejects
  \/ \E text \in UpstreamBodies : ResJsonSettles(text)

Spec == Init /\ [][Next]_vars

\* ------------------------------------------------------------------------
\* Properties of the analyze handler
\* ------------------------------------------------------------------------
Done == pc = "done"

\* The decoded response body.
Decoded == JSONparse(response.body)

\* The upstream body was read in full and decodes to a value the handler
\* can read choices from; Content is message.content of its first choice.
Envelope == JSONparse(groqRes.body)

UpstreamSuccess == groqRes.read /\ IsOk(groqRes.status) /\ Envelope.ok /\ CanRead(Envelope.val)

Content == RawContent(Envelope.val)

UpstreamFailure == groqRes.read /\ ~IsOk(groqRes.status)

RequestBody == JSONparse(req.body)

HasImage(x) == x.t = "object" /\ \E i \in 1..Len(x.v) : x.v[i][1] = K("image")

Mentions(x, word) == x.t = "string" /\ \E i \in 1..Len(x.v) : x.v[i] = word

\* C1: an upstream success whose content is valid JSON text is answered with
\* status 200 and a body that decodes to exactly what the content decodes to.
C1_RoundTrip ==
  (Done /\ UpstreamSuccess /\ Content.t = "string" /\ JSONparse(Content.v).ok)
    => /\ response.status = 200
       /\ response.hasBody
       /\ Decoded.ok
       /\ Decoded.val = JSONparse(Content.v).val

\* C2: an upstream success whose content does not decode as JSON is answered
\* with status 200 and a body {warning, raw} in which raw is present and
\* equals the upstream content.
C2_RawAttached ==
  (Done /\ UpstreamSuccess /\ ~JSONparse(StringOf(Content)).ok)
    => /\ response.status = 200
       /\ Decoded.ok
       /\ Decoded.val.t = "object"
       /\ Len(Decoded.val.v) = 2
       /\ Decoded.val.v[1][1] = K("warning")
       /\ Decoded.val.v[2] = <<K("raw"), Content>>

\* C3: an upstream answer with a non-success status is passed through: the
\* response has that status and the body {error, details} with details the
\* upstream body as a string, after a single upstream call.
C3_PassThrough ==
  (Done /\ UpstreamFailure)
    => /\ response.status = groqRes.status
       /\ Decoded.ok
       /\ Decoded.val = Obj(<< <<K("error"), Str(MsgUpstream)>>,
                               <<K("details"), Str(groqRes.body)>> >>)
       /\ outcome = "UpstreamError"
       /\ Len(sent) = 1

\* C4 as stated: a request that reached the upstream call ends in one of
\* the three outcomes UpstreamError, Unparseable, Validated.
C4_ThreeOutcomes ==
  (Done /\ Len(sent) >= 1) => outcome \in {"UpstreamError", "Unparseable", "Validated"}

\* C4 as amended: a request issues at most one upstream call; one that
\* reached the call ends in exactly one of UpstreamError, Unparseable,
\* Validated or InternalError; and once the call has settled, or an outcome
\* is reached, the same request never issues a call again nor changes its
\* outcome.
C4_OneHop ==
  /\ [](/\ Len(sent) <= 1
        /\ (Done /\ Len(sent) = 1)
             => outcome \in {"UpstreamError", "Unparseable", "Validated", "InternalError"}
        /\ (outcome # "none") => Done)
  /\ [][(nreq' = nreq /\ (outcome # "none" \/ (pc = "fetch" /\ pc' # "fetch")))
          => (sent' = sent /\ pc' # "fetch" /\ (outcome # "none" => outcome' = outcome))]_vars

W_C4 == Done /\ Len(sent) = 1 /\ outcome = "InternalError" /\ nreq = 2

\* C5: a POST whose decoded body has no image field is answered with status
\* 400 and an error message that mentions the image field.
C5_MissingImage ==
  (Done /\ req.method = "POST" /\ RequestBody.ok /\ ~HasImage(RequestBody.val))
    => /\ ~threw
       /\ response.status = 400
       /\ Decoded.ok
       /\ Mentions(GetProp(Decoded.val, K("error")), "image")

\* C6: a POST whose body is not decodable as JSON is answered with status
\* 400, never 500, whatever the credential configuration.
C6_InvalidBody ==
  (Done /\ req.method = "POST" /\ ~RequestBody.ok)
    => (~threw /\ response.status = 400 /\ sent = <<>>)

W_C6 ==
  /\ Done /\ req.method = "POST" /\ ~RequestBody.ok /\ req.body # <<>>
  /\ Falsy(env) /\ response.status = 400

\* C7: an upstream call is made only for a POST whose body decoded, has an
\* image and with credentials configured; a method other than POST and
\* OPTIONS yields 405, an invalid body or a missing image 400, missing
\* credentials 500, each without an upstream call.
C7_GuardedCall ==
  /\ Len(sent) >= 1 =>
       /\ req.method = "POST"
       /\ RequestBody.ok
       /\ HasImage(RequestBody.val)
       /\ ~Falsy(env)
  /\ (Done /\ req.method \notin {"POST", "OPTIONS"})
       => (response.status = 405 /\ sent = <<>>)
  /\ (Done /\ req.method = "POST" /\ (~RequestBody.ok \/ ~HasImage(RequestBody.val)))
       => (response.status = 400 /\ sent = <<>>)
  /\ (Done /\ req.method = "POST" /\ RequestBody.ok /\ HasImage(RequestBody.val)
        /\ ~Falsy(GetProp(RequestBody.val, K("image"))) /\ Falsy(env))
       => (response.status = 500 /\ sent = <<>>)

\* C8: an OPTIONS request never reaches body parsing, the credential check
\* or the upstream call, and its response has no body, for every request
\* body and credential configuration.
C8_Preflight ==
  (req.method = "OPTIONS")
    => /\ Done
       /\ ~threw
       /\ reached = {}
       /\ sent = <<>>
       /\ ~response.hasBody
       /\ response.body = <<>>

W_C8 ==
  /\ Done /\ req.method = "OPTIONS" /\ ~response.hasBody
  /\ RequestBody.ok /\ HasImage(RequestBody.val) /\ ~Falsy(env)

\* C9: every response that carries a JSON body includes the header
\* Access-Control-Allow-Origin: *.
C9_CorsOnJson ==
  (Done /\ response.hasBody) => ACAO \in response.headers

\* C10: the handler never terminates by throwing; an exception on the
\* request path is reported as a status-500 response whose details is the
\* stringified cause.
C10_NeverThrows ==
  Done => /\ ~threw
          /\ response # NoResponse
          /\ outcome = "InternalError"
               => /\ response.status = 500
                  /\ GetProp(Decoded.val, K("details")).t = "string"

\* ------------------------------------------------------------------------
\* The plugin message router (src/code.ts)
\* ------------------------------------------------------------------------
\* Scene nodes of the current page, by id.
Nodes == {1, 2}

NodeName(n) == IF n % 2 = 1 THEN "Login flow" ELSE "Frame"

NodeType(n) == IF n % 2 = 1 THEN "FRAME" ELSE "GROUP"

\* A selection lists distinct nodes.
Selections ==
  UNION {{sel \in [1..k -> Nodes] : \A i, j \in 1..k : sel[i] = sel[j] => i = j}
           : k \in 0..Cardinality(Nodes)}

\* msg.type: the four types of the switch and one it does not know.
MessageTypes == {"EXPORT_SELECTION", "SAVE_VERSION", "GET_SELECTION_INFO", "CLOSE", "PING"}

KnownTypes == {"EXPORT_SELECTION", "SAVE_VERSION", "GET_SELECTION_INFO", "CLOSE"}

\* msg.payload: absent, an empty string, a label.
Payloads == {Undef, Str(<<>>), Str(<<"v1 ", QUOTE, "draft", QUOTE>>)}

\* new Date().toLocaleString()
Timestamps == {<<"11/5/2026, 9:00:00 AM">>}

\* What the host may resolve exportAsync with, and reject a call with.
ExportBytes == {<<137, 80, 78, 71>>}

HostErrors == {<<"Error: the operation failed">>, <<"Error: insufficient permissions">>}

\* figma.base64Encode
Base64Alphabet ==
  <<"A", "B", "C", "D", "E", "F", "G", "H", "I", "J", "K", "L", "M", "N", "O", "P",
    "Q", "R", "S", "T", "U", "V", "W", "X", "Y", "Z", "a", "b", "c", "d", "e", "f",
    "g", "h", "i", "j", "k", "l", "m", "n", "o", "p", "q", "r", "s", "t", "u", "v",
    "w", "x", "y", "z", "0", "1", "2", "3", "4", "5", "6", "7", "8", "9", "+", "/">>

Base64Group(b1, b2, b3, n) ==
  << Base64Alphabet[(b1 \div 4) + 1],
     Base64Alphabet[((b1 % 4) * 16 + b2 \div 16) + 1],
     IF n >= 2 THEN Base64Alphabet[((b2 % 16) * 4 + b3 \div 64) + 1] ELSE "=",
     IF n >= 3 THEN Base64Alphabet[(b3 % 64) + 1] ELSE "=" >>

RECURSIVE Base64Encode(_)
Base64Encode(bytes) ==
  IF bytes = <<>> THEN <<>>
  ELSE IF Len(bytes) = 1 THEN Base64Group(bytes[1], 0, 0, 1)
  ELSE IF Len(bytes) = 2 THEN Base64Group(bytes[1], bytes[2], 0, 2)
  ELSE Base64Group(bytes[1], bytes[2], bytes[3], 3) \o Base64Encode(SubSeq(bytes, 4, Len(bytes)))

MsgNoSelection == <<"No nodes selected. Select a frame or flow to analyse.">>

LabelPrefix == <<"FlowDoc AI -- ">>

VersionDescription == <<"Auto-saved by FlowDoc AI on documentation generation.">>

\* A guard that never rejects a selection.
NoSelectionNever(sel) == Len(sel) < 0

\* selection.length === 0
NoSelection(sel) == Len(sel) = 0

CurrentPage == [kind |-> "page", id |-> 0]

\* A handler that always exports the first selected node.
ExportNodeFirst(sel) == IF sel = <<>> THEN CurrentPage ELSE [kind |-> "node", id |-> sel[1]]

\* selection.length === 1 ? selection[0] : figma.currentPage
ExportNode(sel) == IF Len(sel) = 1 THEN [kind |-> "node", id |-> sel[1]] ELSE CurrentPage

\* nodeCount read from the canvas when the export resolves.
NodeCountLive(read, live) == Len(live)

\* nodeCount: selection.length, of the selection read when the message came.
NodeCount(read, live) == Len(read)

\* A label that is always synthesized.
VersionLabelSynth(payload, now) == Str(LabelPrefix \o now)

\* (msg.payload as string) || `FlowDoc AI -- ${new Date().toLocaleString()}`
VersionLabel(payload, now) == IF Falsy(payload) THEN Str(LabelPrefix \o now) ELSE payload

\* A listener that reports the first selected node only.
SelectionChangedFirst(sel) ==
  [type |-> "SELECTION_CHANGED", count |-> Len(sel),
   names |-> IF sel = <<>> THEN <<>> ELSE <<NodeName(sel[1])>>]

\* { type: "SELECTION_CHANGED", count, names }
SelectionChanged(sel) ==
  [type |-> "SELECTION_CHANGED", count |-> Len(sel),
   names |-> [i \in 1..Len(sel) |-> NodeName(sel[i])]]

\* { type: "SELECTION_INFO", nodes }
SelectionInfo(sel) ==
  [type |-> "SELECTION_INFO",
   nodes |-> [i \in 1..Len(sel) |-> [id |-> sel[i], name |-> NodeName(sel[i]), type |-> NodeType(sel[i])]]]

\* The locals of a handler.
Locals(type, payload, sel, node, label) ==
  [type |-> type, payload |-> payload, sel |-> sel, node |-> node, label |-> label]

OnEvent(kind, slot, h, result) ==
  event' = [kind |-> kind, slot |-> slot, type |-> h.type, payload |-> h.payload, h |-> h,
            result |-> result]

FreeSlots == {i \in Slots : handlers[i] = Idle}

\* The slot a handler that suspends is kept in.
NextSlot == CHOOSE i \in FreeSlots : \A j \in FreeSlots : i <= j

\* The handler ran to its end without awaiting.
RunsToEnd(h) == OnEvent("message", 0, h, <<>>) /\ handlers' = handlers

\* The handler is suspended at its await.
Suspends(h) == OnEvent("message", NextSlot, h, <<>>) /\ handlers' = [handlers EXCEPT ![NextSlot] = h]

\* case "EXPORT_SELECTION", up to `await exportAsync`
HandleExportSelection(payload) ==
  /\ closed' = closed
  /\ IF NoSelection(selection)
       THEN /\ posted' = <<[type |-> "EXPORT_ERROR", error |-> MsgNoSelection]>>
            /\ called' = <<>>
            /\ RunsToEnd(Locals("EXPORT_SELECTION", payload, selection, NoTarget, Undef))
       ELSE /\ FreeSlots # {}
            /\ posted' = <<>>
            /\ called' = <<[api |-> "exportAsync", node |-> ExportNode(selection),
                            format |-> "PNG", scale |-> 2]>>
            /\ Suspends(Locals("EXPORT_SELECTION", payload, selection, ExportNode(selection), Undef))

\* case "SAVE_VERSION", up to `await saveVersionHistoryAsync`
HandleSaveVersion(payload, now) ==
  /\ FreeSlots # {}
  /\ closed' = closed
  /\ posted' = <<>>
  /\ called' = <<[api |-> "saveVersionHistoryAsync", label |-> VersionLabel(payload, now),
                  description |-> VersionDescription]>>
  /\ Suspends(Locals("SAVE_VERSION", payload, <<>>, NoTarget, VersionLabel(payload, now)))

\* case "GET_SELECTION_INFO"
HandleGetSelectionInfo(payload) ==
  /\ closed' = closed
  /\ posted' = <<SelectionInfo(selection)>>
  /\ called' = <<>>
  /\ RunsToEnd(Locals("GET_SELECTION_INFO", payload, <<>>, NoTarget, Undef))

\* case "CLOSE": figma.closePlugin() ends the plugin; the host disables its
\* callbacks, so a pending host call never reports back.
HandleClose(payload) ==
  /\ closed' = TRUE
  /\ posted' = <<>>
  /\ called' = <<[api |-> "closePlugin"]>>
  /\ RunsToEnd(Locals("CLOSE", payload, <<>>, NoTarget, Undef))

\* A default case that answers the sender.
HandleDefaultReply(type, payload) ==
  /\ closed' = closed
  /\ posted' = <<[type |-> "ERROR", error |-> <<"Unknown message type">>]>>
  /\ called' = <<>>
  /\ RunsToEnd(Locals(type, payload, <<>>, NoTarget, Undef))

\* default: console.warn
HandleDefault(type, payload) ==
  /\ closed' = closed
  /\ posted' = <<>>
  /\ called' = <<[api |-> "console.warn", type |-> type]>>
  /\ RunsToEnd(Locals(type, payload, <<>>, NoTarget, Undef))

\* figma.ui.onmessage: a message arrives and its handler runs up to its
\* first await.  The host does not wait for the handler's promise before
\* it delivers the next message.
OnMessage(type, payload, now) ==
  /\ ~closed
  /\ IF type = "EXPORT_SELECTION" THEN HandleExportSelection(payload)
     ELSE IF type = "SAVE_VERSION" THEN HandleSaveVersion(payload, now)
     ELSE IF type = "GET_SELECTION_INFO" THEN HandleGetSelectionInfo(payload)
     ELSE IF type = "CLOSE" THEN HandleClose(payload)
     ELSE HandleDefault(type, payload)
  /\ UNCHANGED <<selection, hvars>>

Awaiting(i, type) == ~closed /\ handlers[i].type = type

\* The awaited call settled and the handler of slot i ran to its end.
Resumes(i, kind, result) ==
  /\ OnEvent(kind, i, handlers[i], result)
  /\ handlers' = [handlers EXCEPT ![i] = Idle]
  /\ UNCHANGED <<selection, closed, hvars>>

\* exportAsync resolves: base64Encode, EXPORT_SUCCESS.
ExportResolves(i, bytes) ==
  /\ Awaiting(i, "EXPORT_SELECTION")
  /\ called' = <<[api |-> "base64Encode"]>>
  /\ posted' = <<[type |-> "EXPORT_SUCCESS", base64 |-> Base64Encode(bytes),
                  nodeCount |-> NodeCount(handlers[i].sel, selection)]>>
  /\ Resumes(i, "resolved", bytes)

\* An export whose failure is swallowed.
ExportRejectsSilently(i, err) ==
  /\ Awaiting(i, "EXPORT_SELECTION")
  /\ called' = <<>>
  /\ posted' = <<>>
  /\ Resumes(i, "rejected", err)

\* exportAsync rejects: catch (err), EXPORT_ERROR.
ExportRejects(i, err) ==
  /\ Awaiting(i, "EXPORT_SELECTION")
  /\ called' = <<>>
  /\ posted' = <<[type |-> "EXPORT_ERROR", error |-> err]>>
  /\ Resumes(i, "rejected", err)

\* saveVersionHistoryAsync resolves: VERSION_SAVED, figma.notify.
SaveResolves(i) ==
  /\ Awaiting(i, "SAVE_VERSION")
  /\ posted' = <<[type |-> "VERSION_SAVED", label |-> handlers[i].label]>>
  /\ called' = <<[api |-> "notify",
                  message |-> <<"Version saved: ", QUOTE>> \o StringOf(handlers[i].label) \o <<QUOTE>>,
                  timeout |-> 3000]>>
  /\ Resumes(i, "resolved", <<>>)

\* A failed save reported as saved.
SaveRejectsAsSaved(i, err) ==
  /\ Awaiting(i, "SAVE_VERSION")
  /\ called' = <<>>
  /\ posted' = <<[type |-> "VERSION_SAVED", label |-> handlers[i].label]>>
  /\ Resumes(i, "rejected", err)

\* saveVersionHistoryAsync rejects: catch (err), VERSION_ERROR.
SaveRejects(i, err) ==
  /\ Awaiting(i, "SAVE_VERSION")
  /\ called' = <<>>
  /\ posted' = <<[type |-> "VERSION_ERROR", error |-> err]>>
  /\ Resumes(i, "rejected", err)

\* The user changes the selection; the selectionchange listener runs.
SelectionChange(sel) ==
  /\ ~closed
  /\ sel # selection
  /\ selection' = sel
  /\ posted' = <<SelectionChanged(sel)>>
  /\ called' = <<>>
  /\ OnEvent("selectionchange", 0, Idle, <<>>)
  /\ UNCHANGED <<handlers, closed, hvars>>

\* The host settles the call the handler of slot i awaits.
Settle(i) ==
  \/ \E bytes \in ExportBytes : ExportResolves(i, bytes)
  \/ \E err \in HostErrors : ExportRejects(i, err)
  \/ SaveResolves(i)
  \/ \E err \in HostErrors : SaveRejects(i, err)

RouterNext ==
  \/ \E type \in MessageTypes, payload \in Payloads, now \in Timestamps :
       /\ (type # "SAVE_VERSION" => payload = Undef)
       /\ OnMessage(type, payload, now)
  \/ \E i \in Slots, bytes \in ExportBytes : ExportResolves(i, bytes)
  \/ \E i \in Slots, err \in HostErrors : ExportRejects(i, err)
  \/ \E i \in Slots : SaveResolves(i)
  \/ \E i \in Slots, err \in HostErrors : SaveRejects(i, err)
  \/ \E sel \in Selections : SelectionChange(sel)

\* The plugin alone: the analyze handler runs in another process.
RouterInit == Init /\ env = Undef

RouterSpec == RouterInit /\ [][RouterNext]_vars

\* The host settles every call it accepted, as long as the plugin runs.
RouterFairSpec == RouterSpec /\ \A i \in Slots : WF_vars(Settle(i))

\* ------------------------------------------------------------------------
\* Properties of the message router
\* ------------------------------------------------------------------------
\* The latest step handled an inbound message of this type.
Handled(type) == event.kind = "message" /\ event.type = type

\* The latest step ended the handler of a message of this type.
Settled(type) == event.kind \in {"resolved", "rejected"} /\ event.type = type

\* The handler of slot i is suspended on the host call of this type.
Pending(i, type) == handlers[i].type = type

Apis == {called[k].api : k \in 1..Len(called)}

PostedTypes == {posted[k].type : k \in 1..Len(posted)}

\* C11: whenever EXPORT_SELECTION is handled while the selection is empty,
\* the router posts EXPORT_ERROR, makes no export call and posts no
\* EXPORT_SUCCESS; the handler has ended, so none follows either.
C11_EmptySelection ==
  (Handled("EXPORT_SELECTION") /\ selection = <<>>) =>
     /\ posted = <<[type |-> "EXPORT_ERROR", error |-> MsgNoSelection]>>
     /\ "exportAsync" \notin Apis
     /\ event.slot = 0
     /\ \A i \in Slots : ~Pending(i, "EXPORT_SELECTION") \/ handlers[i].sel # <<>>

W_C11 ==
  /\ Handled("EXPORT_SELECTION")
  /\ selection = <<>>
  /\ "EXPORT_ERROR" \in PostedTypes

\* C12: a successful export of a one-node selection exported that node and
\* reports nodeCount 1; of a selection of two or more nodes it exported the
\* whole page and reports the number of selected nodes.
C12_ExportTarget ==
  /\ (Handled("EXPORT_SELECTION") /\ event.slot # 0) =>
        /\ Len(called) = 1
        /\ called[1].api = "exportAsync"
        /\ called[1].node = event.h.node
        /\ Len(selection) = 1 => called[1].node = [kind |-> "node", id |-> selection[1]]
        /\ Len(selection) >= 2 => called[1].node = [kind |-> "page", id |-> 0]
  /\ (Settled("EXPORT_SELECTION") /\ "EXPORT_SUCCESS" \in PostedTypes) =>
        /\ Len(event.h.sel) = 1 =>
              /\ event.h.node = [kind |-> "node", id |-> event.h.sel[1]]
              /\ posted[1].nodeCount = 1
        /\ Len(event.h.sel) >= 2 =>
              /\ event.h.node = [kind |-> "page", id |-> 0]
              /\ posted[1].nodeCount = Len(event.h.sel)
              /\ posted[1].nodeCount # 1

W_C12 ==
  /\ Settled("EXPORT_SELECTION")
  /\ "EXPORT_SUCCESS" \in PostedTypes
  /\ Len(event.h.sel) >= 2
  /\ event.h.node.kind = "page"

\* What one EXPORT_SELECTION posts, step by step: the error of the empty
\* selection at once, nothing while the export is awaited, and one message
\* when it settles; a rejected export posts EXPORT_ERROR with the host's text.
ExportPostsOnce ==
  /\ Handled("EXPORT_SELECTION") =>
        IF event.slot = 0
          THEN Len(posted) = 1 /\ posted[1].type = "EXPORT_ERROR"
          ELSE posted = <<>>
  /\ Settled("EXPORT_SELECTION") =>
        /\ Len(posted) = 1
        /\ posted[1].type \in {"EXPORT_SUCCESS", "EXPORT_ERROR"}
        /\ ~Pending(event.slot, "EXPORT_SELECTION")
  /\ (Settled("EXPORT_SELECTION") /\ event.kind = "rejected") =>
        posted = <<[type |-> "EXPORT_ERROR", error |-> event.result]>>

\* The export awaited in slot i has settled and its one message is posted.
ExportReplied(i) == Settled("EXPORT_SELECTION") /\ event.slot = i /\ Len(posted) = 1

LabelFits(label, payload) ==
  IF payload.t = "string" /\ payload.v # <<>>
    THEN label = payload
    ELSE /\ label.t = "string"
         /\ Len(label.v) > Len(LabelPrefix)
         /\ SubSeq(label.v, 1, Len(LabelPrefix)) = LabelPrefix
         /\ SubSeq(label.v, Len(LabelPrefix) + 1, Len(label.v)) \in Timestamps

\* C14: the label SAVE_VERSION passes to the host and reports in
\* VERSION_SAVED is the payload itself when that is a non-empty string, and
\* otherwise the fixed prefix followed by a timestamp.
C14_Label ==
  /\ Handled("SAVE_VERSION") =>
        /\ Len(called) = 1
        /\ called[1].api = "saveVersionHistoryAsync"
        /\ LabelFits(called[1].label, event.payload)
  /\ (Settled("SAVE_VERSION") /\ "VERSION_SAVED" \in PostedTypes) =>
        LabelFits(posted[1].label, event.payload)

W_C14 ==
  /\ Settled("SAVE_VERSION")
  /\ "VERSION_SAVED" \in PostedTypes
  /\ event.payload.t = "string"
  /\ event.payload.v # <<>>
  /\ posted[1].label = event.payload

\* What one SAVE_VERSION calls and posts, step by step: one save call and
\* no message when it is received, and when the save settles no further
\* save call and one message, VERSION_SAVED if and only if the save
\* succeeded and VERSION_ERROR if and only if it failed.
SavePostsOnce ==
  /\ Handled("SAVE_VERSION") =>
        /\ Cardinality({k \in 1..Len(called) : called[k].api = "saveVersionHistoryAsync"}) = 1
        /\ posted = <<>>
        /\ event.slot # 0
  /\ Settled("SAVE_VERSION") =>
        /\ "saveVersionHistoryAsync" \notin Apis
        /\ Len(posted) = 1
        /\ posted[1].type \in {"VERSION_SAVED", "VERSION_ERROR"}
        /\ posted[1].type = "VERSION_SAVED" <=> event.kind = "resolved"
        /\ posted[1].type = "VERSION_ERROR" <=> event.kind = "rejected"
        /\ ~Pending(event.slot, "SAVE_VERSION")

\* The save awaited in slot i has settled and its one message is posted.
SaveReplied(i) == Settled("SAVE_VERSION") /\ event.slot = i /\ Len(posted) = 1

C16_Unrecognized ==
  (event.kind = "message" /\ event.type \notin KnownTypes) =>
     /\ posted = <<>>
     /\ Apis = {"console.warn"}
     /\ called[1].type = event.type
     /\ event.slot = 0
     /\ ~closed

W_C16 ==
  /\ Handled("PING")
  /\ "console.warn" \in Apis
  /\ posted = <<>>

\* C17: user actions never overlap: while the host call of an
\* EXPORT_SELECTION or SAVE_VERSION is pending, the latest step of the
\* plugin is the one that started it; no other message has been handled
\* and no other message posted since.
C17_NoOverlap ==
  \A i \in Slots :
    (Pending(i, "EXPORT_SELECTION") \/ Pending(i, "SAVE_VERSION"))
      => (event.kind = "message" /\ event.slot = i)

\* C18: every change of the selection posts exactly one message, a
\* SELECTION_CHANGED whose count is the length of its names list and the
\* size of the new selection, also while a handler is suspended.
C18_SelectionChanged ==
  [][selection' # selection =>
       /\ Len(posted') = 1
       /\ posted'[1].type = "SELECTION_CHANGED"
       /\ posted'[1].count = Len(posted'[1].names)
       /\ posted'[1].count = Len(selection')
       /\ \A k \in 1..Len(selection') : posted'[1].names[k] = NodeName(selection'[k])
       /\ handlers' = handlers]_vars

W_C18 ==
  /\ event.kind = "selectionchange"
  /\ \E i \in Slots : handlers[i] # Idle
  /\ Len(selection) = 2
  /\ posted[1].count = 2
  /\ Len(posted[1].names) = 2

\* C19: the selection is read once per EXPORT_SELECTION: a suspended
\* export keeps the selection it read and the target chosen from it, and
\* EXPORT_SUCCESS reports the size of that selection whatever the selection
\* is by then; nodeCount is at least 1, and 1 exactly when one node was
\* exported.
C19_ReadOnce ==
  /\ \A i \in Slots : Pending(i, "EXPORT_SELECTION") =>
        /\ handlers[i].sel # <<>>
        /\ handlers[i].node.kind = "node" <=> Len(handlers[i].sel) = 1
  /\ (Settled("EXPORT_SELECTION") /\ event.kind = "resolved") =>
        /\ posted[1].type = "EXPORT_SUCCESS"
        /\ posted[1].nodeCount = Len(event.h.sel)
        /\ posted[1].nodeCount >= 1
        /\ posted[1].nodeCount = 1 <=> event.h.node.kind = "node"
        /\ event.h.node.kind = "node" => event.h.node.id = event.h.sel[1]

W_C19 ==
  /\ Settled("EXPORT_SELECTION")
  /\ "EXPORT_SUCCESS" \in PostedTypes
  /\ Len(selection) # Len(event.h.sel)
  /\ posted[1].nodeCount = Len(event.h.sel)

\* C20: after an upstream success the outcome and the status follow from
\* whether the content decodes as JSON alone: whatever it decodes to, the
\* answer is Validated with status 200 and a body that decodes to the same
\* value; content that does not decode is answered as Unparseable, also 200.
C20_ContentBlind ==
  (Done /\ UpstreamSuccess) =>
     /\ response.status = 200
     /\ IF JSONparse(StringOf(Content)).ok
          THEN outcome = "Validated" /\ Decoded = JSONparse(StringOf(Content))
          ELSE outcome = "Unparseable"

====
